---- MODULE Spec2Model ----
(***************************************************************************)
(* A model of chatgpt-exportify.js: the export loop over the conversation  *)
(* turns (clipboard path and DOM fallback) and the tree-to-Markdown        *)
(* serializer nodeToMarkdown with its table helper tableToMarkdown.        *)
(*                                                                         *)
(* A JavaScript string is a sequence of one-character strings, so that     *)
(* trim, split, join and the subsequence relation are computed and not     *)
(* assumed.  A DOM node is a record with the fields the script reads.      *)
(***************************************************************************)
EXTENDS Integers, Sequences, FiniteSets, TLC

VARIABLES
    pc,         \* position of the script: in the export loop, or in a serializer call
    node,       \* the node handed to the serializer (serializer runs)
    md,         \* the value the serializer call returned
    call,       \* which serializer entry point was called
    turns,      \* document.querySelectorAll("[data-testid^='conversation-turn-']")
    t,          \* index of the turn the for-of loop is at
    lines,      \* the array lines of the export
    role,       \* role of the current turn
    text,       \* text of the current turn
    prevClip,   \* prevClip of the current turn
    content,    \* the content of the downloaded file, <<>> before the download
    clipboard,  \* the system clipboard's text
    clipStart,  \* history: the clipboard's text when the script started
    ops,        \* history: the clipboard operations of the current turn, in order
    failed,     \* history: whether a clipboard operation has failed so far
    hist        \* history: per turn, what the loop body did

vars == <<pc, node, md, call, turns, t, lines, role, text, prevClip, content,
          clipboard, clipStart, ops, failed, hist>>

exportVars == <<turns, t, lines, role, text, prevClip, content,
                clipboard, clipStart, ops, failed, hist>>

serializerVars == <<node, md, call>>

-----------------------------------------------------------------------------
(* Bounds of the model.                                                    *)

\* Children of a heading or of a container element.
MaxKids == 2
\* Children of a list.
MaxItems == 4
\* Rows of a table, and cells of a row.
MaxRows == 2
MaxCols == 2
\* Nesting depth of the single-child chains.
MaxDepth == 2
\* Unrecognized wrappers put around a node.
MaxWrap == 2
\* Items of the one long ordered list (two-digit numbers).
LongLen == 11
\* Conversation turns of the page.
MaxTurns == 2

-----------------------------------------------------------------------------
(* JavaScript strings.                                                     *)

\* The characters String.prototype.trim removes (the ones the model uses).
WhiteSpace == {" ", "\n", "\t"}

Min(a, b) == IF a < b THEN a ELSE b

RECURSIVE trimStart(_)
trimStart(s) ==
    IF s # <<>> /\ Head(s) \in WhiteSpace THEN trimStart(Tail(s)) ELSE s

RECURSIVE trimEnd(_)
trimEnd(s) ==
    IF s # <<>> /\ s[Len(s)] \in WhiteSpace
    THEN trimEnd(SubSeq(s, 1, Len(s) - 1))
    ELSE s

trim(s) == trimEnd(trimStart(s))

RECURSIVE repeat(_, _)
repeat(s, n) == IF n <= 0 THEN <<>> ELSE s \o repeat(s, n - 1)

\* s.split(sep) for a one-character separator: "".split("\n") is [""].
RECURSIVE split(_, _)
split(s, sep) ==
    IF \A k \in 1..Len(s) : s[k] # sep
    THEN <<s>>
    ELSE LET k == CHOOSE j \in 1..Len(s) :
                      s[j] = sep /\ \A m \in 1..(j - 1) : s[m] # sep
         IN <<SubSeq(s, 1, k - 1)>> \o split(SubSeq(s, k + 1, Len(s)), sep)

\* parts.join(sep)
RECURSIVE join(_, _)
join(parts, sep) ==
    IF parts = <<>> THEN <<>>
    ELSE IF Len(parts) = 1 THEN parts[1]
    ELSE parts[1] \o sep \o join(Tail(parts), sep)

startsWith(s, p) == Len(s) >= Len(p) /\ SubSeq(s, 1, Len(p)) = p

Digits == <<"0", "1", "2", "3", "4", "5", "6", "7", "8", "9">>

\* The decimal text of a natural number, as a template literal writes it.
RECURSIVE numberToString(_)
numberToString(n) ==
    IF n < 10 THEN <<Digits[n + 1]>>
    ELSE numberToString(n \div 10) \o <<Digits[(n % 10) + 1]>>

\* The backquote character (the lexer takes no backquote inside a string).
Backquote == "BQ"

\* The value a failing property access leaves instead of a string: the
\* TypeError that ends the call.
Throw == <<"TypeError">>

-----------------------------------------------------------------------------
(* DOM nodes.                                                              *)

\* querySelector's null.
NullNode ==
    [nodeType |-> "null", tagName |-> "", data |-> <<>>, childNodes |-> <<>>,
     href |-> <<>>, classList |-> <<>>]

TextNode(s) ==
    [nodeType |-> "text", tagName |-> "", data |-> s, childNodes |-> <<>>,
     href |-> <<>>, classList |-> <<>>]

CommentNode(s) ==
    [nodeType |-> "comment", tagName |-> "", data |-> s, childNodes |-> <<>>,
     href |-> <<>>, classList |-> <<>>]

\* href is <<>> when the attribute is absent and <<value>> when present.
Element(tag, kids) ==
    [nodeType |-> "element", tagName |-> tag, data |-> <<>>,
     childNodes |-> kids, href |-> <<>>, classList |-> <<>>]

Link(kids, h) == [Element("A", kids) EXCEPT !.href = h]

Code(kids, classes) == [Element("CODE", kids) EXCEPT !.classList = classes]

\* node.children: the element children.
children(n) == SelectSeq(n.childNodes, LAMBDA c : c.nodeType = "element")

\* node.textContent: the data of a text or comment node; for an element the
\* data of its text descendants in document order (comments excluded).
RECURSIVE textContent(_)
RECURSIVE textContentOfAll(_)
textContent(n) ==
    IF n.nodeType \in {"text", "comment"} THEN n.data
    ELSE textContentOfAll(n.childNodes)
textContentOfAll(kids) ==
    IF kids = <<>> THEN <<>>
    ELSE (IF Head(kids).nodeType = "comment" THEN <<>> ELSE textContent(Head(kids)))
         \o textContentOfAll(Tail(kids))

\* element.innerText of a rendered element whose text is all visible: the text
\* descendants in document order, a br rendered as a line break.
RECURSIVE innerText(_)
RECURSIVE innerTextOfAll(_)
innerText(n) ==
    IF n.nodeType = "text" THEN n.data
    ELSE IF n.nodeType # "element" THEN <<>>
    ELSE IF n.tagName = "br" THEN <<"\n">>
    ELSE innerTextOfAll(n.childNodes)
innerTextOfAll(kids) ==
    IF kids = <<>> THEN <<>>
    ELSE innerText(Head(kids)) \o innerTextOfAll(Tail(kids))

\* root.querySelectorAll(<tag names>): the descendant elements with one of the
\* tags, in document order; root itself is never among them.
RECURSIVE querySelectorAll(_, _)
RECURSIVE querySelectorAllIn(_, _)
querySelectorAll(root, tags) == querySelectorAllIn(root.childNodes, tags)
querySelectorAllIn(kids, tags) ==
    IF kids = <<>> THEN <<>>
    ELSE LET k == Head(kids)
         IN (IF k.nodeType = "element" /\ k.tagName \in tags THEN <<k>> ELSE <<>>)
            \o querySelectorAll(k, tags)
            \o querySelectorAllIn(Tail(kids), tags)

querySelector(root, tags) ==
    LET all == querySelectorAll(root, tags)
    IN IF all = <<>> THEN NullNode ELSE all[1]

-----------------------------------------------------------------------------
(* Tag names.  The DOM gives an HTML element's tagName in upper case; the   *)
(* script compares tagName.toLowerCase().                                   *)

UpperTags ==
    {"PRE", "CODE", "H1", "H2", "H3", "H4", "H5", "H6", "H7", "P", "STRONG",
     "B", "EM", "I", "A", "UL", "OL", "LI", "BLOCKQUOTE", "TABLE", "TBODY",
     "TR", "TH", "TD", "BR", "HR", "DIV", "SPAN"}

toLowerCase(tag) ==
    CASE tag = "PRE" -> "pre"        [] tag = "CODE" -> "code"
      [] tag = "H1" -> "h1"          [] tag = "H2" -> "h2"
      [] tag = "H3" -> "h3"          [] tag = "H4" -> "h4"
      [] tag = "H5" -> "h5"          [] tag = "H6" -> "h6"
      [] tag = "H7" -> "h7"          [] tag = "P" -> "p"
      [] tag = "STRONG" -> "strong"  [] tag = "B" -> "b"
      [] tag = "EM" -> "em"          [] tag = "I" -> "i"
      [] tag = "A" -> "a"            [] tag = "UL" -> "ul"
      [] tag = "OL" -> "ol"          [] tag = "LI" -> "li"
      [] tag = "BLOCKQUOTE" -> "blockquote"
      [] tag = "TABLE" -> "table"    [] tag = "TBODY" -> "tbody"
      [] tag = "TR" -> "tr"          [] tag = "TH" -> "th"
      [] tag = "TD" -> "td"          [] tag = "BR" -> "br"
      [] tag = "HR" -> "hr"          [] tag = "DIV" -> "div"
      [] tag = "SPAN" -> "span"      [] OTHER -> tag

\* tag.match(/^h([1-6])$/) and parseInt of its group: the level, 0 for no match.
headingMatch(tag) ==
    CASE tag = "h1" -> 1 [] tag = "h2" -> 2 [] tag = "h3" -> 3
      [] tag = "h4" -> 4 [] tag = "h5" -> 5 [] tag = "h6" -> 6
      [] OTHER -> 0

\* Selector matching of a type selector is case-insensitive in an HTML document.
selectAll(root, lowerTags) ==
    querySelectorAll(root, {u \in UpperTags : toLowerCase(u) \in lowerTags})

select(root, lowerTags) ==
    querySelector(root, {u \in UpperTags : toLowerCase(u) \in lowerTags})

-----------------------------------------------------------------------------
(* tableToMarkdown.                                                        *)

\* rows: one array of trimmed cell texts per tr of the table.
cellsOf(tr) ==
    LET cells == selectAll(tr, {"th", "td"})
    IN [k \in 1..Len(cells) |-> trim(textContent(cells[k]))]

tableRows(table) ==
    LET trs == selectAll(table, {"tr"})
    IN [k \in 1..Len(trs) |-> cellsOf(trs[k])]

RECURSIVE maxOf(_)
maxOf(ns) ==
    IF Len(ns) = 1 THEN ns[1]
    ELSE LET m == maxOf(Tail(ns)) IN IF ns[1] > m THEN ns[1] ELSE m

\* Math.max(...rows.map((r) => r.length)), rows not empty.
colCountOf(rows) == maxOf([k \in 1..Len(rows) |-> Len(rows[k])])

\* Faulty variant: rows left ragged.
padRow_unpadded(row, colCount) == row

\* while (row.length < colCount) row.push("")
padRow(row, colCount) ==
    row \o [k \in 1..(colCount - Len(row)) |-> <<>>]

\* "| " + row.join(" | ") + " |"
rowLine(row) == <<"|", " ">> \o join(row, <<" ", "|", " ">>) \o <<" ", "|">>

\* "| " + row.map(() => "---").join(" | ") + " |", row already padded
separatorLine(row) == rowLine([k \in 1..Len(row) |-> <<"-", "-", "-">>])

\* Whether the forEach callback pushes the separator after row i (i from 0).
separatorAfter(i) == i = 0

\* The array `lines` the forEach builds.
RECURSIVE tableLinesFrom(_, _, _)
tableLinesFrom(rows, i, colCount) ==
    IF i >= Len(rows) THEN <<>>
    ELSE LET row == padRow(rows[i + 1], colCount)
         IN <<rowLine(row)>>
            \o (IF separatorAfter(i) THEN <<separatorLine(row)>> ELSE <<>>)
            \o tableLinesFrom(rows, i + 1, colCount)

tableLines(rows) == tableLinesFrom(rows, 0, colCountOf(rows))

tableToMarkdown(table) ==
    LET rows == tableRows(table)
    IN IF rows = <<>> THEN <<>> ELSE join(tableLines(rows), <<"\n">>)

-----------------------------------------------------------------------------
(* nodeToMarkdown.                                                         *)

LanguagePrefix == <<"l", "a", "n", "g", "u", "a", "g", "e", "-">>

\* [...(code.classList || [])].find((c) => c.startsWith("language-")), then
\* langClass ? langClass.replace("language-", "") : ""
langOf(code) ==
    LET found == SelectSeq(code.classList, LAMBDA c : startsWith(c, LanguagePrefix))
    IN IF found # <<>>
       THEN SubSeq(found[1], Len(LanguagePrefix) + 1, Len(found[1]))
       ELSE <<>>

Fence == <<Backquote, Backquote, Backquote>>

\* lines 139-144: the fenced block of a code element.  Reading classList or
\* innerText of querySelector's null throws.
fencedCode(code) ==
    IF code = NullNode THEN Throw
    ELSE <<"\n">> \o Fence \o langOf(code) \o <<"\n">>
         \o trimEnd(innerText(code)) \o <<"\n">> \o Fence \o <<"\n">>

\* Faulty variant: a pre that skips the test of line 137.
preMd_noGuard(n) == fencedCode(select(n, {"code"}))

preMd(n) ==
    LET code == select(n, {"code"})
    IN IF code # NullNode
       THEN fencedCode(code)
       ELSE <<"\n">> \o Fence \o <<"\n">> \o trimEnd(innerText(n))
            \o <<"\n">> \o Fence \o <<"\n">>

inlineCodeMd(n) == <<Backquote>> \o textContent(n) \o <<Backquote>>

\* Faulty variant: the level bumped, not clamped.
headingPrefix_noClamp(level) == repeat(<<"#">>, level + 1)

\* "#".repeat(Math.min(level + 1, 6))
headingPrefix(level) == repeat(<<"#">>, Min(level + 1, 6))

\* The text a heading carries: node.textContent.trim()
headingText(n) == trim(textContent(n))

headingMd(n, level) ==
    <<"\n">> \o headingPrefix(level) \o <<" ">> \o headingText(n) \o <<"\n">>

paragraphMd(inner) == <<"\n">> \o trim(inner) \o <<"\n">>

boldMd(inner) == <<"*", "*">> \o inner \o <<"*", "*">>

italicMd(inner) == <<"*">> \o inner \o <<"*">>

\* node.getAttribute("href") || ""
hrefOf(n) == IF n.href = <<>> THEN <<>> ELSE n.href[1]

linkMd(inner, href) == <<"[">> \o inner \o <<"]", "(">> \o href \o <<")">>

\* tag === "ol" ? (idx++ followed by ".") : "-"
bulletOf(tag, idx) ==
    IF tag = "ol" THEN numberToString(idx) \o <<".">> ELSE <<"-">>

\* Faulty variant: the counter never advanced.
idxAfter_stuck(tag, idx) == idx

\* idx after the bullet expression: idx++ is evaluated for an ol only.
idxAfter(tag, idx) == IF tag = "ol" THEN idx + 1 ELSE idx

\* Whether the list loop emits a line for this element child.
isListItem(li) == toLowerCase(li.tagName) = "li"

\* Faulty variant: the item's content untrimmed.
listItemLine_untrimmed(bullet, inner) == bullet \o <<" ">> \o inner \o <<"\n">>

\* bullet + " " + inner.trim() + "\n"
listItemLine(bullet, inner) == bullet \o <<" ">> \o trim(inner) \o <<"\n">>

blockquoteMd(inner) ==
    LET ls == split(trim(inner), "\n")
    IN <<"\n">>
       \o join([k \in 1..Len(ls) |-> <<">", " ">> \o ls[k]], <<"\n">>)
       \o <<"\n">>

tableMd(n) == <<"\n">> \o tableToMarkdown(n) \o <<"\n">>

\* Faulty variants of the default rule: the children's result dropped, and
\* a line break put before it.
defaultMd_dropped(result) == <<>>
defaultMd_separated(result) == <<"\n">> \o result

\* The default rule: what the element returns for its children's result.
defaultMd(result) == result

RECURSIVE nodeToMarkdown(_)
RECURSIVE childNodesMd(_)
RECURSIVE listItemsMd(_, _, _)

\* for (const child of node.childNodes) inner += nodeToMarkdown(child)
childNodesMd(kids) ==
    IF kids = <<>> THEN <<>>
    ELSE nodeToMarkdown(Head(kids)) \o childNodesMd(Tail(kids))

\* The loop over node.children of a ul or ol, from the child at the head.
listItemsMd(kids, tag, idx) ==
    IF kids = <<>> THEN <<>>
    ELSE LET li == Head(kids)
         IN IF isListItem(li)
            THEN listItemLine(bulletOf(tag, idx), childNodesMd(li.childNodes))
                 \o listItemsMd(Tail(kids), tag, idxAfter(tag, idx))
            ELSE listItemsMd(Tail(kids), tag, idx)

nodeToMarkdown(n) ==
    IF n.nodeType = "text" THEN n.data
    ELSE IF n.nodeType # "element" THEN <<>>
    ELSE LET tag == toLowerCase(n.tagName)
         IN IF tag = "pre" THEN preMd(n)
            ELSE IF tag = "code" THEN inlineCodeMd(n)
            ELSE IF headingMatch(tag) # 0 THEN headingMd(n, headingMatch(tag))
            ELSE IF tag = "p" THEN paragraphMd(childNodesMd(n.childNodes))
            ELSE IF tag \in {"strong", "b"} THEN boldMd(childNodesMd(n.childNodes))
            ELSE IF tag \in {"em", "i"} THEN italicMd(childNodesMd(n.childNodes))
            ELSE IF tag = "a" THEN linkMd(childNodesMd(n.childNodes), hrefOf(n))
            ELSE IF tag \in {"ul", "ol"}
                 THEN <<"\n">> \o listItemsMd(children(n), tag, 1)
            ELSE IF tag = "blockquote" THEN blockquoteMd(childNodesMd(n.childNodes))
            ELSE IF tag = "table" THEN tableMd(n)
            ELSE IF tag = "br" THEN <<"\n">>
            ELSE IF tag = "hr" THEN <<"\n", "-", "-", "-", "\n">>
            ELSE defaultMd(childNodesMd(n.childNodes))

extractMarkdownFromDom(el) == childNodesMd(el.childNodes)

-----------------------------------------------------------------------------
(* The node trees the serializer is run on.                                *)

SeqsUpTo(S, n) == UNION {[1..k -> S] : k \in 0..n}

Ta == TextNode(<<"a">>)
Tb == TextNode(<<" ", "b", " ">>)
Tws == TextNode(<<"\n">>)

Leaves == {Ta, Tb, Tws, CommentNode(<<"c">>)}

\* Inline content: text, bold, italic, link with and without href, inline code.
InlinePool ==
    {Ta, Tb,
     Element("STRONG", <<TextNode(<<"x">>)>>),
     Element("EM", <<TextNode(<<"e">>)>>),
     Link(<<TextNode(<<"y">>)>>, <<<<"u">>>>),
     Link(<<TextNode(<<"n">>)>>, <<>>),
     Code(<<TextNode(<<"k">>)>>, <<>>)}

\* Block content.
BlockPool ==
    {Element("P", <<Tb>>),
     Element("H2", <<Ta>>),
     Element("UL", <<Element("LI", <<Ta>>)>>),
     Element("BLOCKQUOTE", <<TextNode(<<"q", "\n", "r">>)>>),
     Element("PRE", <<Code(<<TextNode(<<"v", "\n">>)>>,
                           <<LanguagePrefix \o <<"j", "s">>>>)>>),
     Element("TABLE", <<Element("TR", <<Element("TD", <<Ta>>)>>)>>),
     Element("BR", <<>>),
     Element("HR", <<>>)}

\* Every tag of the vocabulary over no child and over one leaf.
Flat ==
    {Element(tag, kids) : tag \in UpperTags, kids \in SeqsUpTo(Leaves, 1)}

ChainTags ==
    {"PRE", "CODE", "H1", "P", "STRONG", "A", "UL", "LI", "BLOCKQUOTE", "TABLE",
     "TR", "TD", "BR", "DIV"}

\* Single-child chains to depth d.
RECURSIVE Chains(_)
Chains(d) ==
    IF d = 0 THEN Leaves
    ELSE LET below == Chains(d - 1)
         IN below
            \cup {Element(tag, <<>>) : tag \in ChainTags}
            \cup {Element(tag, <<k>>) : tag \in ChainTags, k \in below}

HeadingTags == {"H1", "H2", "H3", "H4", "H5", "H6", "H7"}

Headings ==
    {Element(h, kids) : h \in HeadingTags, kids \in SeqsUpTo(InlinePool, MaxKids)}

\* Children of a list: items with plain and with formatted content, stray
\* text and a child that is no list item.
ItemPool ==
    {Element("LI", <<Ta>>),
     Element("LI", <<Tb, Element("STRONG", <<TextNode(<<"x">>)>>)>>),
     Element("LI", <<Link(<<TextNode(<<"y">>)>>, <<<<"u">>>>)>>),
     TextNode(<<"s", "\n">>),
     Element("DIV", <<TextNode(<<"d">>)>>)}

Lists ==
    {Element(l, kids) : l \in {"UL", "OL"}, kids \in SeqsUpTo(ItemPool, MaxItems)}

LongList == Element("OL", [k \in 1..LongLen |-> Element("LI", <<Ta>>)])

CellPool == {Element("TD", <<Ta>>), Element("TH", <<Tb>>)}

RowPool == {Element("TR", cells) : cells \in SeqsUpTo(CellPool, MaxCols)}

Tables == {Element("TABLE", rows) : rows \in SeqsUpTo(RowPool, MaxRows)}

ContainerTags == {"DIV", "LI", "P", "BLOCKQUOTE", "STRONG", "A"}

ContentPool ==
    {Ta, Tb,
     Element("EM", <<TextNode(<<"e">>)>>),
     Link(<<TextNode(<<"y">>)>>, <<<<"u">>>>),
     Element("P", <<Tb>>),
     Element("OL", <<Element("LI", <<Ta>>)>>),
     Element("BLOCKQUOTE", <<TextNode(<<"q", "\n", "r">>)>>),
     Element("TABLE", <<Element("TR", <<Element("TD", <<Ta>>)>>)>>),
     Element("BR", <<>>),
     Element("HR", <<>>)}

Containers ==
    {Element(c, kids) : c \in ContainerTags, kids \in SeqsUpTo(ContentPool, MaxKids)}

RECURSIVE Wrap(_, _)
Wrap(n, k) ==
    IF k = 0 THEN n
    ELSE Element(IF k % 2 = 0 THEN "SPAN" ELSE "DIV", <<Wrap(n, k - 1)>>)

Wrapped == {Wrap(n, k) : n \in InlinePool \cup BlockPool, k \in 1..MaxWrap}

\* Single trees: a nested table, a table with a body and text outside its
\* cells, rows without cells, the ragged table of three cells and one, block
\* code with text outside its code element and with a line break, a heading
\* over a list, a nested list, list items and a quote of several paragraphs,
\* and two text nodes under an unrecognized element.
Specimens ==
    {Element("TABLE",
         <<Element("TR",
             <<Element("TD",
                 <<Ta,
                   Element("TABLE", <<Element("TR", <<Element("TD", <<TextNode(<<"x">>)>>)>>)>>),
                   Tb>>),
               Element("TH", <<TextNode(<<"y">>)>>)>>)>>),
     Element("TABLE",
         <<TextNode(<<"t">>),
           Element("TBODY",
               <<Element("TR", <<Element("TH", <<Ta>>)>>), Tws,
                 Element("TR", <<Element("TD", <<Tb>>), TextNode(<<"z">>),
                                 Element("TD", <<Element("STRONG", <<TextNode(<<"x">>)>>)>>)>>)>>)>>),
     Element("TABLE", <<Element("TR", <<>>), Element("TR", <<>>)>>),
     Element("TABLE",
         <<Element("TR", <<Element("TH", <<Ta>>), Element("TH", <<Tb>>),
                           Element("TH", <<TextNode(<<"c">>)>>)>>),
           Element("TR", <<Element("TD", <<TextNode(<<"d">>)>>)>>)>>),
     Element("PRE", <<TextNode(<<"z">>), Code(<<Ta>>, <<<<"h">>>>)>>),
     Element("PRE", <<Element("SPAN", <<Ta, Element("BR", <<>>), Tb>>)>>),
     Element("H3", <<Element("UL", <<Element("LI", <<Ta>>), TextNode(<<"s">>)>>),
                     Element("STRONG", <<Element("EM", <<TextNode(<<"x">>)>>)>>)>>),
     Element("UL", <<Element("LI", <<Ta, Element("UL", <<Element("LI", <<Tb>>)>>)>>)>>),
     Element("OL", <<Element("LI", <<Element("P", <<Ta>>), Element("P", <<Tb>>)>>),
                     Element("LI", <<Element("BR", <<>>)>>)>>),
     Element("BLOCKQUOTE", <<Element("P", <<Ta>>), Element("P", <<Tb>>)>>),
     Element("DIV", <<TextNode(<<"f", "o", "o">>), TextNode(<<"b", "a", "r">>)>>)}

Inputs ==
    Flat \cup Chains(MaxDepth) \cup Headings \cup Lists \cup {LongList} \cup Tables
    \cup Containers \cup Wrapped \cup Specimens

-----------------------------------------------------------------------------
(* Serializer runs: one call of an entry point on one tree.                *)

NoTurns == <<>>

SerializerInit ==
    /\ pc = "ready"
    /\ node \in Inputs
    /\ md = <<>>
    /\ call = "none"
    /\ turns = NoTurns
    /\ t = 0
    /\ lines = <<>>
    /\ role = "none"
    /\ text = <<>>
    /\ prevClip = <<>>
    /\ content = <<>>
    /\ clipboard = <<>>
    /\ clipStart = <<>>
    /\ ops = <<>>
    /\ failed = FALSE
    /\ hist = <<>>

CallNodeToMarkdown ==
    /\ pc = "ready"
    /\ md' = nodeToMarkdown(node)
    /\ call' = "nodeToMarkdown"
    /\ pc' = "returned"
    /\ UNCHANGED <<node, exportVars>>

CallExtractMarkdownFromDom ==
    /\ pc = "ready"
    /\ node.nodeType = "element"
    /\ md' = extractMarkdownFromDom(node)
    /\ call' = "extractMarkdownFromDom"
    /\ pc' = "returned"
    /\ UNCHANGED <<node, exportVars>>

SerializerNext == CallNodeToMarkdown \/ CallExtractMarkdownFromDom

SpecSerializer == SerializerInit /\ [][SerializerNext]_vars

-----------------------------------------------------------------------------
(* The page: conversation turns.  A turn holds what its querySelector      *)
(* calls find: <<>> for null, <<x>> for a match.  A message element holds   *)
(* its .whitespace-pre-wrap descendant's innerText, its .markdown           *)
(* descendant and its own innerText.  A copy button holds the text its      *)
(* click handler puts on the clipboard.                                     *)

MessageEl(pre, mdEl, inner) ==
    [whitespacePre |-> pre, markdown |-> mdEl, innerText |-> inner]

Turn(u, a, c) == [userMsg |-> u, assistantMsg |-> a, copyBtn |-> c]

MarkdownEl ==
    Element("DIV",
            <<Element("P", <<Tb, Element("STRONG", <<TextNode(<<"x">>)>>)>>),
              Element("OL", <<Element("LI", <<Ta>>), Element("LI", <<Tb>>)>>)>>)

UserPre == MessageEl(<<<<" ", "h", "i", " ">>>>, <<>>, <<"h", "i", "!">>)
UserPlain == MessageEl(<<>>, <<>>, <<"u", "\n">>)
AssistantMd == MessageEl(<<>>, <<MarkdownEl>>, <<"m">>)
AssistantPlain == MessageEl(<<>>, <<>>, <<" ", "r", " ">>)

TurnPool ==
    {Turn(<<UserPre>>, <<>>, <<>>),
     Turn(<<UserPlain>>, <<>>, <<<<"k">>>>),
     Turn(<<>>, <<AssistantMd>>, <<>>),
     Turn(<<>>, <<AssistantMd>>, <<<<" ", "k", "\n">>>>),
     Turn(<<>>, <<AssistantMd>>, <<<<>>>>),
     Turn(<<>>, <<AssistantMd>>, <<<<" ">>>>),
     Turn(<<>>, <<AssistantPlain>>, <<<<"k">>>>),
     Turn(<<>>, <<AssistantPlain>>, <<>>),
     Turn(<<UserPre>>, <<AssistantMd>>, <<<<"k">>>>),
     Turn(<<UserPlain>>, <<AssistantMd>>, <<>>),
     Turn(<<>>, <<>>, <<<<"k">>>>)}

ClipboardPool == {<<>>, <<"o">>}

NoHist == [role |-> "none", read |-> <<>>, invoked |-> FALSE, text |-> <<>>]

-----------------------------------------------------------------------------
(* The export loop.  The script runs alone between its awaits; the click   *)
(* handler of the copy button is the page's: it has put its text on the     *)
(* clipboard, or done nothing, by the time the 150 ms delay is over.        *)

Init ==
    /\ pc = "start"
    /\ turns \in SeqsUpTo(TurnPool, MaxTurns)
    /\ clipboard \in ClipboardPool
    /\ clipStart = clipboard
    /\ t = 0
    /\ lines = <<>>
    /\ role = "none"
    /\ text = <<>>
    /\ prevClip = <<>>
    /\ content = <<>>
    /\ ops = <<>>
    /\ failed = FALSE
    /\ hist = [k \in 1..Len(turns) |-> NoHist]
    /\ node = NullNode
    /\ md = <<>>
    /\ call = "none"

\* lines 9-10
Preamble ==
    <<<<"a", "g", "e", "n", "t", ":", " ", "C", "h", "a", "t", "G", "P",
      "T", " ", "5", ".", "2", " ", "T", "h", "i", "n", "k", "i", "n",
      "g">>,
      <<>>>>

\* "# " + role
roleHeader(r) ==
    IF r = "user" THEN <<"#", " ", "u", "s", "e", "r">>
    ELSE <<"#", " ", "a", "g", "e", "n", "t">>

\* Faulty variant: the assistant message looked at first.
roleOf_assistantFirst(turn) ==
    IF turn.assistantMsg # <<>> THEN "agent"
    ELSE IF turn.userMsg # <<>> THEN "user"
    ELSE "none"

\* The role of a turn (lines 28-36): "none" stands for the continue.
roleOf(turn) ==
    IF turn.userMsg # <<>> THEN "user"
    ELSE IF turn.assistantMsg # <<>> THEN "agent"
    ELSE "none"

\* contentEl of a turn that has a role.
contentElOf(turn) ==
    IF turn.userMsg # <<>> THEN turn.userMsg[1] ELSE turn.assistantMsg[1]

\* lines 8-18
Start ==
    /\ pc = "start"
    /\ lines' = Preamble
    /\ IF turns = <<>>
       THEN pc' = "alerted" /\ t' = t
       ELSE pc' = "loop" /\ t' = 1
    /\ UNCHANGED <<serializerVars, turns, role, text, prevClip, content,
                   clipboard, clipStart, ops, failed, hist>>

\* lines 20-42: the head of one iteration, or the end of the loop
SelectRole ==
    /\ pc = "loop"
    /\ IF t > Len(turns)
       THEN /\ pc' = "download"
            /\ UNCHANGED <<t, role, text, ops, hist>>
       ELSE IF roleOf(turns[t]) = "none"
       THEN /\ pc' = "loop"
            /\ t' = t + 1
            /\ UNCHANGED <<role, text, ops, hist>>
       ELSE /\ role' = roleOf(turns[t])
            /\ text' = <<>>
            /\ ops' = <<>>
            /\ hist' = [hist EXCEPT ![t].role = roleOf(turns[t])]
            /\ pc' = IF turns[t].copyBtn # <<>> THEN "readPrev" ELSE "fallback"
            /\ t' = t
    /\ UNCHANGED <<serializerVars, turns, lines, prevClip, content,
                   clipboard, clipStart, failed>>

\* line 45: navigator.clipboard.readText().catch(() => ""), which may also
\* throw before a promise exists (no clipboard API), landing in line 59
ReadPrevClip ==
    /\ pc = "readPrev"
    /\ \E outcome \in {"resolved", "rejected", "thrown"} :
          /\ prevClip' = IF outcome = "resolved" THEN clipboard ELSE <<>>
          /\ failed' = (failed \/ outcome # "resolved")
          /\ pc' = IF outcome = "thrown" THEN "fallback" ELSE "click"
          /\ ops' = Append(ops, IF outcome = "resolved" THEN "readText"
                                ELSE "readText failed")
    /\ UNCHANGED <<serializerVars, turns, t, lines, role, text, content,
                   clipboard, clipStart, hist>>

\* lines 48-51: the click and the delay
ClickCopy ==
    /\ pc = "click"
    /\ \E copies \in BOOLEAN :
          clipboard' = IF copies THEN turns[t].copyBtn[1] ELSE clipboard
    /\ ops' = Append(ops, "click")
    /\ pc' = "readText"
    /\ UNCHANGED <<serializerVars, turns, t, lines, role, text, prevClip,
                   content, clipStart, failed, hist>>

\* line 53, and the catch of lines 59-62 when the read is rejected
ReadClipboard ==
    /\ pc = "readText"
    /\ \E resolved \in BOOLEAN :
          /\ text' = IF resolved THEN clipboard ELSE <<>>
          /\ failed' = (failed \/ ~resolved)
          /\ hist' = IF resolved THEN [hist EXCEPT ![t].read = <<clipboard>>]
                     ELSE hist
          /\ pc' = IF resolved THEN "restore" ELSE "fallback"
          /\ ops' = Append(ops, IF resolved THEN "readText" ELSE "readText failed")
    /\ UNCHANGED <<serializerVars, turns, t, lines, role, prevClip, content,
                   clipboard, clipStart>>

\* Faulty variant: the clipboard never written back.
shouldRestore_never(prev) == FALSE

\* line 56: if (prevClip)
shouldRestore(prev) == prev # <<>>

\* lines 56-58: writeText(prevClip).catch(() => {}) for a truthy prevClip
RestoreClipboard ==
    /\ pc = "restore"
    /\ IF shouldRestore(prevClip)
       THEN \E resolved \in BOOLEAN :
               /\ clipboard' = IF resolved THEN prevClip ELSE clipboard
               /\ failed' = (failed \/ ~resolved)
               /\ ops' = Append(ops, IF resolved THEN "writeText"
                                     ELSE "writeText failed")
       ELSE UNCHANGED <<clipboard, failed, ops>>
    /\ pc' = "fallback"
    /\ UNCHANGED <<serializerVars, turns, t, lines, role, text, prevClip,
                   content, clipStart, hist>>

\* Faulty variant: the fallback taken whatever the clipboard gave.
needsFallback_always(txt) == TRUE

\* Whether line 66 takes the fallback.
needsFallback(txt) == txt = <<>>

\* lines 68-81: the text the fallback takes from the DOM
fallbackText(r, contentEl) ==
    IF r = "user"
    THEN IF contentEl.whitespacePre # <<>>
         THEN contentEl.whitespacePre[1]
         ELSE contentEl.innerText
    ELSE IF contentEl.markdown # <<>>
         THEN extractMarkdownFromDom(contentEl.markdown[1])
         ELSE contentEl.innerText

\* Whether the fallback calls extractMarkdownFromDom (line 77).
callsSerializer(r, contentEl) == r # "user" /\ contentEl.markdown # <<>>

\* lines 65-82
Fallback ==
    /\ pc = "fallback"
    /\ IF needsFallback(text)
       THEN /\ text' = fallbackText(role, contentElOf(turns[t]))
            /\ hist' = [hist EXCEPT
                           ![t].invoked = callsSerializer(role, contentElOf(turns[t]))]
       ELSE UNCHANGED <<text, hist>>
    /\ pc' = "push"
    /\ UNCHANGED <<serializerVars, turns, t, lines, role, prevClip, content,
                   clipboard, clipStart, ops, failed>>

\* The text pushed for a turn (line 86).
emittedText(txt) == trim(txt)

\* lines 84-87
turnLines(r, txt) == <<roleHeader(r), <<>>, emittedText(txt), <<>>>>

\* lines 84-88, and the step to the next turn
PushLines ==
    /\ pc = "push"
    /\ lines' = lines \o turnLines(role, text)
    /\ hist' = [hist EXCEPT ![t].text = <<text>>]
    /\ t' = t + 1
    /\ pc' = "loop"
    /\ UNCHANGED <<serializerVars, turns, role, text, prevClip, content,
                   clipboard, clipStart, ops, failed>>

\* lines 90-115: lines.join("\n") goes into the downloaded file
Download ==
    /\ pc = "download"
    /\ content' = <<join(lines, <<"\n">>)>>
    /\ pc' = "done"
    /\ UNCHANGED <<serializerVars, turns, t, lines, role, text, prevClip,
                   clipboard, clipStart, ops, failed, hist>>

Next ==
    \/ Start
    \/ SelectRole
    \/ ReadPrevClip
    \/ ClickCopy
    \/ ReadClipboard
    \/ RestoreClipboard
    \/ Fallback
    \/ PushLines
    \/ Download

Spec == Init /\ [][Next]_vars

-----------------------------------------------------------------------------
(* Properties of the serializer, checked under SpecSerializer.  The         *)
(* definitions of this part state what is expected of the output; they do   *)
(* not model the script.                                                    *)

Returned == pc = "returned" /\ call = "nodeToMarkdown"

Extracted == pc = "returned" /\ call = "extractMarkdownFromDom"

IsElement(n, tags) == n.nodeType = "element" /\ n.tagName \in tags

RECURSIVE IsSubsequence(_, _)
IsSubsequence(s, w) ==
    IF s = <<>> THEN TRUE
    ELSE IF w = <<>> THEN FALSE
    ELSE IF Head(s) = Head(w) THEN IsSubsequence(Tail(s), Tail(w))
    ELSE IsSubsequence(s, Tail(w))

\* The payloads of the text nodes at or under a node, in document order.
RECURSIVE TextPayloads(_)
RECURSIVE TextPayloadsOfAll(_)
TextPayloads(n) ==
    IF n.nodeType = "text" THEN n.data
    ELSE IF n.nodeType # "element" THEN <<>>
    ELSE TextPayloadsOfAll(n.childNodes)
TextPayloadsOfAll(kids) ==
    IF kids = <<>> THEN <<>>
    ELSE TextPayloads(Head(kids)) \o TextPayloadsOfAll(Tail(kids))

NonWhiteSpace(s) == SelectSeq(s, LAMBDA c : c \notin WhiteSpace)

\* r is s without its leading and trailing whitespace.
IsTrimOf(r, s) ==
    /\ r = <<>> \/ (r[1] \notin WhiteSpace /\ r[Len(r)] \notin WhiteSpace)
    /\ \E i \in 0..Len(s) :
          /\ i + Len(r) <= Len(s)
          /\ SubSeq(s, i + 1, i + Len(r)) = r
          /\ \A k \in 1..i : s[k] \in WhiteSpace
          /\ \A k \in (i + Len(r) + 1)..Len(s) : s[k] \in WhiteSpace

HeadingLevels == <<"H1", "H2", "H3", "H4", "H5", "H6">>

Recognized ==
    {"PRE", "CODE", "H1", "H2", "H3", "H4", "H5", "H6", "P", "STRONG", "B",
     "EM", "I", "A", "UL", "OL", "LI", "BLOCKQUOTE", "TABLE", "BR", "HR"}

\* The non-whitespace characters of the text the serializer keeps: all text
\* but the text under a block code, a line break or a rule, under a child of
\* a list that is no list item, and in a table outside the cells of its rows.
RECURSIVE KeptText(_)
RECURSIVE KeptTextOfAll(_)
RECURSIVE KeptItemText(_)
RECURSIVE KeptCellText(_, _, _)
KeptText(n) ==
    IF n.nodeType = "text" THEN NonWhiteSpace(n.data)
    ELSE IF n.nodeType # "element" THEN <<>>
    ELSE IF n.tagName \in {"PRE", "BR", "HR"} THEN <<>>
    ELSE IF n.tagName \in {"CODE", "H1", "H2", "H3", "H4", "H5", "H6"}
         THEN NonWhiteSpace(TextPayloads(n))
    ELSE IF n.tagName \in {"UL", "OL"} THEN KeptItemText(n.childNodes)
    ELSE IF n.tagName = "TABLE" THEN KeptCellText(n.childNodes, FALSE, FALSE)
    ELSE KeptTextOfAll(n.childNodes)
KeptTextOfAll(kids) ==
    IF kids = <<>> THEN <<>>
    ELSE KeptText(Head(kids)) \o KeptTextOfAll(Tail(kids))
KeptItemText(kids) ==
    IF kids = <<>> THEN <<>>
    ELSE (IF IsElement(Head(kids), {"LI"})
          THEN KeptTextOfAll(Head(kids).childNodes)
          ELSE <<>>)
         \o KeptItemText(Tail(kids))
KeptCellText(kids, inRow, inCell) ==
    IF kids = <<>> THEN <<>>
    ELSE LET k == Head(kids)
         IN (IF k.nodeType = "text"
             THEN (IF inCell THEN NonWhiteSpace(k.data) ELSE <<>>)
             ELSE IF k.nodeType # "element" THEN <<>>
             ELSE KeptCellText(k.childNodes,
                               inRow \/ k.tagName = "TR",
                               inCell \/ (inRow /\ k.tagName \in {"TH", "TD"})))
            \o KeptCellText(Tail(kids), inRow, inCell)

\* C1 as claimed: the text payloads under the node, concatenated in document
\* order, are a subsequence of what nodeToMarkdown returns for the node.
C1_AllTextPreserved ==
    Returned => IsSubsequence(TextPayloads(node), md)

\* C1 amended: the non-whitespace characters of the kept text (all text but
\* that under a block code, line break or rule, under a non-item child of a
\* list, or in a table outside the cells of its rows) are, in document order,
\* a subsequence of what nodeToMarkdown and extractMarkdownFromDom return.
C1_KeptTextPreserved ==
    /\ Returned => IsSubsequence(KeptText(node), md)
    /\ Extracted => IsSubsequence(KeptTextOfAll(node.childNodes), md)

\* A paragraph inside unrecognized wrappers whose text lost only whitespace.
C1_Witness ==
    /\ Returned
    /\ node = Wrap(Element("P", <<Tb>>), 2)
    /\ KeptText(node) = <<"b">>
    /\ TextPayloads(node) # KeptText(node)
    /\ IsSubsequence(KeptText(node), md)

Char ==
    {"a", "b", "c", "d", "e", "f", "h", "i", "j", "k", "n", "o", "q", "r", "s",
     "t", "u", "v", "x", "y", "z", "0", "1", "2", "3", "4", "5", "6", "7", "8",
     "9", " ", "\n", "\t", "#", "*", "[", "]", "(", ")", "|", "-", ".", ">",
     Backquote}

IsString(s) == \A k \in 1..Len(s) : s[k] \in Char

\* C2: every call of nodeToMarkdown and of extractMarkdownFromDom returns a
\* string; none ends in a TypeError.
C2_Total ==
    pc = "returned" => md # Throw /\ IsString(md)

\* A block code without a code element, a link without href and a table
\* without rows have been serialized.
C2_Witness ==
    /\ Returned
    /\ \/ IsElement(node, {"PRE"}) /\ select(node, {"code"}) = NullNode
       \/ IsElement(node, {"A"}) /\ node.href = <<>>
       \/ IsElement(node, {"TABLE"}) /\ node.childNodes = <<>>
    /\ IsString(md)

HeadingLevelOf(n) == CHOOSE l \in 1..6 : HeadingLevels[l] = n.tagName

Hashes(k) == [j \in 1..k |-> "#"]

\* C3: a heading of level L serializes to a newline, min(L+1, 6) '#', a space,
\* its trimmed flattened text with no inline markers, and a newline.
C3_HeadingShape ==
    (Returned /\ IsElement(node, {"H1", "H2", "H3", "H4", "H5", "H6"})) =>
        LET L == HeadingLevelOf(node)
            k == IF L + 1 < 6 THEN L + 1 ELSE 6
        IN /\ k \in 2..6
           /\ Len(md) >= k + 3
           /\ md[1] = "\n"
           /\ SubSeq(md, 2, k + 1) = Hashes(k)
           /\ md[k + 2] = " "
           /\ md[Len(md)] = "\n"
           /\ IsTrimOf(SubSeq(md, k + 3, Len(md) - 1), TextPayloads(node))

\* A level-6 heading with a bold child has been serialized with six '#'.
C3_Witness ==
    /\ Returned
    /\ IsElement(node, {"H6"})
    /\ \E k \in 1..Len(node.childNodes) : IsElement(node.childNodes[k], {"STRONG"})
    /\ SubSeq(md, 1, 8) = <<"\n">> \o Hashes(6) \o <<" ">>

RECURSIVE CatMd(_)
CatMd(kids) ==
    IF kids = <<>> THEN <<>>
    ELSE nodeToMarkdown(Head(kids)) \o CatMd(Tail(kids))

ItemsOf(n) == SelectSeq(n.childNodes, LAMBDA c : IsElement(c, {"LI"}))

\* The decimal numeral of k, 1 <= k <= 99.
Numeral(k) ==
    LET d == <<"0", "1", "2", "3", "4", "5", "6", "7", "8", "9">>
    IN IF k < 10 THEN <<d[k + 1]>> ELSE <<d[(k \div 10) + 1], d[(k % 10) + 1]>>

ExpectedBullet(n, k) ==
    IF n.tagName = "OL" THEN Numeral(k) \o <<".">> ELSE <<"-">>

RECURSIVE Flatten(_)
Flatten(ss) == IF ss = <<>> THEN <<>> ELSE Head(ss) \o Flatten(Tail(ss))

C6_Numbering ==
    (Returned /\ IsElement(node, {"UL", "OL"})) =>
        LET items == ItemsOf(node)
        IN md = <<"\n">> \o Flatten([k \in 1..Len(items) |->
                     ExpectedBullet(node, k)
                     \o listItemLine(<<>>, CatMd(items[k].childNodes))])

\* An ordered list with three items and a child between them that is no item.
C6_Witness ==
    /\ Returned
    /\ IsElement(node, {"OL"})
    /\ Len(ItemsOf(node)) = 3
    /\ Len(node.childNodes) > 3
    /\ IsSubsequence(<<"1", ".", "2", ".", "3", ".">>, md)

ExpectedPadded(row, m) == [k \in 1..m |-> IF k <= Len(row) THEN row[k] ELSE <<>>]

\* "| c1 | c2 |" written cell by cell; "|  |" for no cell.
ExpectedLine(cells) ==
    IF cells = <<>> THEN <<"|", " ", " ", "|">>
    ELSE <<"|">> \o Flatten([k \in 1..Len(cells) |-> <<" ">> \o cells[k] \o <<" ", "|">>])

\* C5: for a table with rows, the lines are row 0, a separator of colCount
\* '---' cells, then the other rows, every row padded to colCount = the
\* longest row's length with empty cells; rows + 1 lines in all.
C5_TablePadding ==
    (Returned /\ IsElement(node, {"TABLE"}) /\ tableRows(node) # <<>>) =>
        LET rows == tableRows(node)
            m == CHOOSE c \in {Len(rows[k]) : k \in 1..Len(rows)} :
                     \A k \in 1..Len(rows) : Len(rows[k]) <= c
            ls == tableLines(rows)
        IN /\ Len(ls) = Len(rows) + 1
           /\ ls[1] = ExpectedLine(ExpectedPadded(rows[1], m))
           /\ ls[2] = ExpectedLine([k \in 1..m |-> <<"-", "-", "-">>])
           /\ \A k \in 2..Len(rows) :
                 ls[k + 1] = ExpectedLine(ExpectedPadded(rows[k], m))
           /\ md = <<"\n">> \o join(ls, <<"\n">>) \o <<"\n">>

\* A ragged table of two rows, three cells and one, has been serialized.
C5_Witness ==
    /\ Returned
    /\ IsElement(node, {"TABLE"})
    /\ LET rows == tableRows(node)
       IN /\ Len(rows) = 2
          /\ Len(rows[1]) = 3
          /\ Len(rows[2]) = 1
          /\ tableLines(rows)[3] = ExpectedLine(<<rows[2][1], <<>>, <<>>>>)

\* C8: an element with an unrecognized tag serializes to the concatenation
\* of its children's serializations, nothing added; so does the root handed
\* to extractMarkdownFromDom.
C8_Passthrough ==
    /\ (Returned /\ node.nodeType = "element" /\ node.tagName \notin Recognized)
          => md = CatMd(node.childNodes)
    /\ Extracted => md = CatMd(node.childNodes)

\* 'foo' and 'bar' under an unrecognized element gave 'foobar', and a block
\* under two unrecognized wrappers gave the block's own output.
C8_Witness ==
    /\ Returned
    /\ \/ /\ node = Element("DIV", <<TextNode(<<"f", "o", "o">>), TextNode(<<"b", "a", "r">>)>>)
          /\ md = <<"f", "o", "o", "b", "a", "r">>
       \/ /\ node = Wrap(Element("HR", <<>>), 2)
          /\ md = <<"\n", "-", "-", "-", "\n">>

-----------------------------------------------------------------------------
(* Properties of the export loop, checked under Spec.                      *)

HasRole(turn) == turn.userMsg # <<>> \/ turn.assistantMsg # <<>>

\* The turn's lines have been pushed.
Pushed(k) == hist[k].text # <<>>

\* Where the text line of turn k stands in lines: after the two preamble
\* lines and four lines for every earlier turn with a message.
TextLineOf(k) ==
    2 + 4 * Cardinality({j \in 1..(k - 1) : HasRole(turns[j])}) + 3

\* The read after the click returned text that is not empty.
ReadSomeText(k) == hist[k].read # <<>> /\ hist[k].read[1] # <<>>

\* C7 as claimed: extractMarkdownFromDom is called for a turn only when the
\* clipboard path gave no text; when the read after the click returns text,
\* it is not called and the emitted text is the clipboard text.
C7_ClipboardTextEmitted ==
    \A k \in 1..Len(turns) :
        /\ hist[k].invoked => ~ReadSomeText(k)
        /\ (ReadSomeText(k) /\ Pushed(k)) =>
              /\ ~hist[k].invoked
              /\ lines[TextLineOf(k)] = hist[k].read[1]

\* C7 amended: the same, the emitted text being the clipboard text trimmed.
C7_ClipboardTextTrimmed ==
    \A k \in 1..Len(turns) :
        /\ hist[k].invoked => ~ReadSomeText(k)
        /\ (ReadSomeText(k) /\ Pushed(k)) =>
              /\ ~hist[k].invoked
              /\ IsTrimOf(lines[TextLineOf(k)], hist[k].read[1])

\* An assistant turn with rendered markdown took its text from the clipboard
\* without a call of the serializer, and another turn fell back to it.
C7_Witness ==
    /\ pc = "done"
    /\ \E k \in 1..Len(turns) :
          /\ turns[k] = Turn(<<>>, <<AssistantMd>>, <<<<" ", "k", "\n">>>>)
          /\ hist[k].read = <<<<" ", "k", "\n">>>>
          /\ ~hist[k].invoked
          /\ lines[TextLineOf(k)] = <<"k">>
    /\ \E j \in 1..Len(turns) : hist[j].invoked

ExpectedHeader(turn) ==
    IF turn.userMsg # <<>> THEN <<"#", " ", "u", "s", "e", "r">>
    ELSE <<"#", " ", "a", "g", "e", "n", "t">>

\* C9: after the loop (or the early return for no turn), lines is the two preamble lines and then, for each
\* turn with a user or assistant message, in order, '# user' (a user message
\* present) or '# agent', an empty line, the trimmed text, an empty line.
C9_DocumentStructure ==
    pc \in {"alerted", "download", "done"} =>
        LET ks == SelectSeq([k \in 1..Len(turns) |-> k], LAMBDA k : HasRole(turns[k]))
        IN /\ Len(lines) = 2 + 4 * Len(ks)
           /\ SubSeq(lines, 1, 2) = Preamble
           /\ \A i \in 1..Len(ks) :
                 LET base == 2 + 4 * (i - 1)
                 IN /\ lines[base + 1] = ExpectedHeader(turns[ks[i]])
                    /\ lines[base + 2] = <<>>
                    /\ Pushed(ks[i])
                    /\ IsTrimOf(lines[base + 3], hist[ks[i]].text[1])
                    /\ lines[base + 4] = <<>>

\* A turn with both messages (user), a turn with neither (no lines) or an
\* assistant-only turn (agent) have been exported.
C9_Witness ==
    /\ pc = "done"
    /\ Len(turns) = 2
    /\ turns[1].userMsg # <<>> /\ turns[1].assistantMsg # <<>>
    /\ turns[2].userMsg = <<>> /\ turns[2].assistantMsg # <<>>
    /\ Len(lines) = 10
    /\ lines[3] = <<"#", " ", "u", "s", "e", "r">>
    /\ lines[7] = <<"#", " ", "a", "g", "e", "n", "t">>

TurnSucceeded == \A i \in 1..Len(ops) : ops[i] \in {"readText", "click", "writeText"}

\* C10: for a turn with a copy button whose clipboard operations succeed, the
\* clipboard is read, the button clicked, the clipboard read again and, the
\* previous content not being empty, written back, leaving that content; with
\* no failed operation and a clipboard not empty at the start, the clipboard
\* holds its starting content between turns and after the export.
C10_ClipboardRestored ==
    /\ (pc = "fallback" /\ turns[t].copyBtn # <<>> /\ TurnSucceeded) =>
          /\ Len(ops) >= 3
          /\ SubSeq(ops, 1, 3) = <<"readText", "click", "readText">>
          /\ hist[t].read # <<>>
          /\ prevClip # <<>> =>
                /\ ops = <<"readText", "click", "readText", "writeText">>
                /\ clipboard = prevClip
    /\ (pc \in {"loop", "fallback", "push", "download", "done"}
            /\ ~failed /\ clipStart # <<>>) => clipboard = clipStart

\* An export in which a click put a turn's text on the clipboard, the text
\* was read, and the clipboard was written back to what it held at the start.
C10_Witness ==
    /\ pc = "done"
    /\ ~failed
    /\ clipStart = <<"o">>
    /\ clipboard = clipStart
    /\ \E k \in 1..Len(turns) : hist[k].read = <<<<"k">>>>

====
